---- MODULE Spec2Model ----
(***************************************************************************)
(* A model of the tyre-strategy pipeline: DataProcessor::new,              *)
(* calculate_average_stint_lengths (src/src/data.rs), DegradationModel     *)
(* (src/src/model.rs), StrategySimulator::simulate_and_print               *)
(* (src/src/strategy.rs) and main (src/src/main.rs).                       *)
(*                                                                         *)
(* f64 values are modelled exactly: a lap time or a time delta is an       *)
(* integer number of time units, an average is the rational num/den, and   *)
(* the non-finite values NaN, +inf and -inf are kept apart from them.      *)
(***************************************************************************)
EXTENDS Integers, Sequences, FiniteSets, TLC

\* ------------------------------------------------------------------------
\* Bounds of the model
\* ------------------------------------------------------------------------

\* Lap numbers of the enumerated lap sequences range over 1..MaxLapNo.
MaxLapNo == 3

\* ------------------------------------------------------------------------
\* Helpers
\* ------------------------------------------------------------------------

RECURSIVE SumSeq(_)
\* stints.iter().sum::<u32>()
SumSeq(s) == IF s = <<>> THEN 0 ELSE Head(s) + SumSeq(Tail(s))

RECURSIVE Flatten(_)
\* Concatenation of a sequence of sequences (Iterator::flatten).
Flatten(ss) == IF ss = <<>> THEN <<>> ELSE Head(ss) \o Flatten(Tail(ss))

\* All orders in which the keys of a HashMap can be iterated.
IterationOrders(keys) ==
    { o \in [1..Cardinality(keys) -> keys] :
        \A a, b \in 1..Cardinality(keys) : a # b => o[a] # o[b] }

\* ------------------------------------------------------------------------
\* f64 arithmetic
\* ------------------------------------------------------------------------

\* An f64 is [cls, val]: a finite value val (an integer number of units), or
\* one of NaN, +inf and -inf.
Fin(n) == [cls |-> "fin", val |-> n]
NaN == [cls |-> "NaN", val |-> 0]
PosInf == [cls |-> "inf", val |-> 1]
NegInf == [cls |-> "-inf", val |-> 0 - 1]

\* f64::is_finite
IsFinite(x) == x.cls = "fin"

\* -x
F64Neg(x) ==
    CASE x.cls = "NaN" -> NaN
      [] x.cls = "inf" -> NegInf
      [] x.cls = "-inf" -> PosInf
      [] OTHER -> Fin(0 - x.val)

\* Sign of an f64 that is not NaN: -1, 0 or 1.
F64Sign(x) == IF x.val > 0 THEN 1 ELSE IF x.val < 0 THEN 0 - 1 ELSE 0

\* a + b
F64Add(a, b) ==
    CASE a.cls = "NaN" \/ b.cls = "NaN" -> NaN
      [] IsFinite(a) /\ IsFinite(b) -> Fin(a.val + b.val)
      [] IsFinite(a) -> b
      [] IsFinite(b) -> a
      [] OTHER -> IF a = b THEN a ELSE NaN

\* a * b
F64Mul(a, b) ==
    CASE a.cls = "NaN" \/ b.cls = "NaN" -> NaN
      [] IsFinite(a) /\ IsFinite(b) -> Fin(a.val * b.val)
      [] OTHER -> LET sg == F64Sign(a) * F64Sign(b)
                  IN  IF sg = 0 THEN NaN ELSE IF sg > 0 THEN PosInf ELSE NegInf

\* f64::max: the other operand when one is NaN.
F64Max(x, y) ==
    CASE x.cls = "NaN" -> y
      [] y.cls = "NaN" -> x
      [] x.cls = "inf" \/ y.cls = "inf" -> PosInf
      [] x.cls = "-inf" -> y
      [] y.cls = "-inf" -> x
      [] OTHER -> IF x.val >= y.val THEN x ELSE y

\* |x|
F64Abs(x) ==
    CASE x.cls = "NaN" -> NaN
      [] x.cls \in {"inf", "-inf"} -> PosInf
      [] OTHER -> IF x.val >= 0 THEN x ELSE Fin(0 - x.val)

\* ------------------------------------------------------------------------
\* ProcessedLapData
\* ------------------------------------------------------------------------

\* A ProcessedLapData value.
Lap(driver, lap_number, compound, tyre_life, lap_time, track_temp, time_delta, pit_out, pit_in) ==
    [ driver |-> driver, lap_number |-> lap_number, compound |-> compound,
      tyre_life |-> tyre_life, lap_time_seconds |-> lap_time,
      track_temp |-> track_temp, time_delta |-> time_delta,
      is_pit_out_lap |-> pit_out, is_pit_in_lap |-> pit_in ]

\* The compounds a lap of the enumerated inputs can carry: the two tracked
\* ones and one untracked one.
Compounds == {"MEDIUM", "HARD", "SOFT"}

\* ------------------------------------------------------------------------
\* calculate_average_stint_lengths (data.rs)
\* ------------------------------------------------------------------------

VARIABLES
    data,           \* HashMap<String, Vec<ProcessedLapData>>: driver -> laps
    seg_pc,         \* "outer" (between drivers), "inner" (in the lap loop), "done", "idle"
    seg_todo,       \* the drivers data.values() has still to yield, in the map's order
    laps,           \* the lap list of the driver being segmented
    i,              \* index of the inner loop, 0-based as in the code
    start_lap,      \* let mut start_lap
    compound,       \* let mut compound
    medium_stints,  \* Vec<u32>
    hard_stints,    \* Vec<u32>
    closed,         \* every stint the loop has closed so far, in order
    avg             \* the returned pair (avg_med, avg_hard): [med, hard], two rationals

segVars == <<data, seg_pc, seg_todo, laps, i, start_lap, compound,
             medium_stints, hard_stints, closed, avg>>

\* A lap as far as the segmentation reads it; the other fields are fixed.
SegLap(n, c, pin, pout) == Lap("VER", n, c, n - 1, 100, 30, Fin(0), pout, pin)

RECURSIVE LapSeqsFrom(_)
\* Every lap sequence with strictly increasing lap numbers in n..MaxLapNo:
\* lap numbers may be missing, compounds and pit flags are arbitrary.
LapSeqsFrom(n) ==
    IF n > MaxLapNo THEN { <<>> }
    ELSE LapSeqsFrom(n + 1) \cup
         { <<SegLap(n, c, pin, pout)>> \o rest :
             c \in Compounds, pin \in BOOLEAN, pout \in BOOLEAN,
             rest \in LapSeqsFrom(n + 1) }

\* Lap lists of a second driver.
CompanionLaps ==
    { << Lap("HAM", 2, "MEDIUM", 0, 100, 30, Fin(0), FALSE, FALSE),
         Lap("HAM", 3, "MEDIUM", 1, 100, 30, Fin(0), FALSE, TRUE),
         Lap("HAM", 4, "HARD", 0, 100, 30, Fin(0), TRUE, FALSE),
         Lap("HAM", 7, "HARD", 3, 100, 30, Fin(0), FALSE, FALSE) >>,
      << Lap("HAM", 1, "SOFT", 0, 100, 30, Fin(0), FALSE, FALSE),
         Lap("HAM", 2, "HARD", 0, 100, 30, Fin(0), FALSE, FALSE) >> }

\* A run of laps lo..hi on one compound, as create_test_data writes them.
TestRun(driver, lo, hi, c, pin_last, pout_first) ==
    [ k \in 1..(hi - lo + 1) |->
        Lap(driver, lo + k - 1, c, k - 1, 100, 30, Fin(0),
            pout_first /\ k = 1, pin_last /\ k = hi - lo + 1) ]

\* create_test_data: DRIVER1 5 MEDIUM + 4 HARD laps, DRIVER2 3 MEDIUM + 2 HARD.
TestData ==
    [ d \in {"DRIVER1", "DRIVER2"} |->
        IF d = "DRIVER1"
        THEN TestRun(d, 1, 5, "MEDIUM", TRUE, FALSE) \o TestRun(d, 6, 9, "HARD", FALSE, TRUE)
        ELSE TestRun(d, 1, 3, "MEDIUM", TRUE, FALSE) \o TestRun(d, 4, 5, "HARD", FALSE, TRUE) ]

\* The driver maps the segmentation is run on.
SegInputs ==
    { [ d \in {"VER"} |-> s ] : s \in LapSeqsFrom(1) }
    \cup { [ d \in {"VER", "HAM"} |-> IF d = "VER" THEN s ELSE c ] :
             s \in LapSeqsFrom(1), c \in CompanionLaps }
    \cup { TestData }

\* The value of avg before the function returns.
NoAvg == [ med |-> [num |-> 0, den |-> 0], hard |-> [num |-> 0, den |-> 0] ]

SegIdle ==
    /\ data = << >>
    /\ seg_pc = "idle"
    /\ seg_todo = <<>>
    /\ laps = <<>>
    /\ i = 0
    /\ start_lap = 0
    /\ compound = ""
    /\ medium_stints = <<>>
    /\ hard_stints = <<>>
    /\ closed = <<>>
    /\ avg = NoAvg

\* State at the entry of calculate_average_stint_lengths(data), the map
\* iterating its keys in the given order.
SegStart(d, order) ==
    /\ data = d
    /\ seg_pc = "outer"
    /\ seg_todo = order
    /\ laps = <<>>
    /\ i = 0
    /\ start_lap = 0
    /\ compound = ""
    /\ medium_stints = <<>>
    /\ hard_stints = <<>>
    /\ closed = <<>>
    /\ avg = NoAvg

IsStintEndPitFlagsOnly(ls, k) ==
    \/ k = Len(ls) - 1
    \/ ls[k + 1].is_pit_in_lap
    \/ (k + 1 < Len(ls) /\ ls[k + 2].is_pit_out_lap)

\* is_stint_end of the lap at 0-based index k of ls.
IsStintEnd(ls, k) ==
    LET curr == ls[k + 1]
        is_last == k = Len(ls) - 1
        next_exists == k + 1 < Len(ls)
        next_is_pit_out == IF next_exists THEN ls[k + 2].is_pit_out_lap ELSE FALSE
        compound_differs == IF next_exists THEN ls[k + 2].compound # curr.compound ELSE FALSE
    IN  is_last \/ curr.is_pit_in_lap \/ next_is_pit_out
          \/ (next_exists /\ compound_differs /\ ~next_is_pit_out)

StintLenNoPlusOne(start, end) == end - start

\* let len = curr.lap_number - start_lap + 1
StintLen(start, end) == end - start + 1

AvgIntegerDivision(stints, default) ==
    IF stints = <<>> THEN [num |-> default, den |-> 1]
    ELSE [num |-> SumSeq(stints) \div Len(stints), den |-> 1]

\* let avg = |stints, default| ...: the mean as the rational num/den.
Avg(stints, default) ==
    IF stints = <<>> THEN [num |-> default, den |-> 1]
    ELSE [num |-> SumSeq(stints), den |-> Len(stints)]

\* The configured defaults of the two averages.
DefaultMediumStint == 14
DefaultHardStint == 42

\* for laps in data.values().filter(|l| !l.is_empty()): the map yields the
\* next driver.
SegNextDriver ==
    /\ seg_pc = "outer"
    /\ seg_todo # <<>>
    /\ LET d == Head(seg_todo)
       IN
         /\ seg_todo' = Tail(seg_todo)
         /\ IF data[d] = <<>>
            THEN UNCHANGED <<seg_pc, laps, i, start_lap, compound>>
            ELSE /\ seg_pc' = "inner"
                 /\ laps' = data[d]
                 /\ i' = 0
                 /\ start_lap' = data[d][1].lap_number
                 /\ compound' = data[d][1].compound
    /\ UNCHANGED <<data, medium_stints, hard_stints, closed, avg>>

\* One iteration of for i in 0..laps.len().
SegStep ==
    /\ seg_pc = "inner"
    /\ i < Len(laps)
    /\ LET curr == laps[i + 1]
           is_last == i = Len(laps) - 1
           len == StintLen(start_lap, curr.lap_number)
       IN  IF IsStintEnd(laps, i)
           THEN /\ medium_stints' = IF len > 0 /\ compound = "MEDIUM"
                                    THEN Append(medium_stints, len) ELSE medium_stints
                /\ hard_stints' = IF len > 0 /\ compound = "HARD"
                                  THEN Append(hard_stints, len) ELSE hard_stints
                /\ closed' = Append(closed,
                      [ driver |-> curr.driver, compound |-> compound,
                        start |-> start_lap, end |-> curr.lap_number, len |-> len ])
                /\ IF ~is_last
                   THEN /\ start_lap' = laps[i + 2].lap_number
                        /\ compound' = laps[i + 2].compound
                   ELSE UNCHANGED <<start_lap, compound>>
           ELSE UNCHANGED <<medium_stints, hard_stints, closed, start_lap, compound>>
    /\ i' = i + 1
    /\ seg_pc' = IF i + 1 = Len(laps) THEN "outer" ELSE "inner"
    /\ UNCHANGED <<data, seg_todo, laps, avg>>

\* (avg(&medium_stints, 14.0), avg(&hard_stints, 42.0))
SegReturn ==
    /\ seg_pc = "outer"
    /\ seg_todo = <<>>
    /\ avg' = [ med |-> Avg(medium_stints, DefaultMediumStint),
                hard |-> Avg(hard_stints, DefaultHardStint) ]
    /\ seg_pc' = "done"
    /\ UNCHANGED <<data, seg_todo, laps, i, start_lap, compound,
                   medium_stints, hard_stints, closed>>

\* ------------------------------------------------------------------------
\* DegradationModel (model.rs)
\* ------------------------------------------------------------------------

VARIABLES
    model_pc,       \* "idle", "new" (before DegradationModel::new), "built", "queried"
    model_laps,     \* the lap pool handed to DegradationModel::new
    model,          \* the DegradationModel: [hard_model, medium_model]
    fit_calls,      \* the (compound, x rows, y targets) handed to LinearRegression::fit, in order
    fit_results,    \* what LinearRegression::fit returned for each dataset it was given
    query,          \* the arguments of the last predict_degradation call
    prediction      \* its outcome: [panicked, value]

modelVars == <<model_pc, model_laps, model, fit_calls, fit_results, query, prediction>>

\* Option<FittedLinearRegression>: None is the empty sequence, Some(m) is <<m>>.
None == <<>>
Some(m) == <<m>>

\* A FittedLinearRegression: the intercept and the three parameters.
Fitted(intercept, p_age, p_temp, p_age2) ==
    [ intercept |-> intercept, params |-> <<p_age, p_temp, p_age2>> ]

\* The regressions a fit can return: degradation rising with tyre age, a fit
\* that predicts below zero for fresh tyres, and two degenerate fits with
\* non-finite coefficients.
FittedModels ==
    { Fitted(Fin(2), Fin(1), Fin(0), Fin(1)),
      Fitted(Fin(0 - 40), Fin(0 - 3), Fin(1), Fin(2)),
      Fitted(NaN, Fin(0 - 1), Fin(0), PosInf),
      Fitted(Fin(1), PosInf, Fin(1), Fin(0)) }

OptionalModels == {None} \cup { Some(m) : m \in FittedModels }

\* The DegradationModel before any model is built.
NoModels == [ hard_model |-> None, medium_model |-> None ]

ModelIdle ==
    /\ model_pc = "idle"
    /\ model_laps = <<>>
    /\ model = NoModels
    /\ fit_calls = <<>>
    /\ fit_results = {}
    /\ query = [ tyre_lap |-> 0, temp |-> Fin(0), comp |-> "" ]
    /\ prediction = [ panicked |-> FALSE, value |-> Fin(0) ]

QualifyingAlsoPitLaps(pool) == SelectSeq(pool, LAMBDA d : IsFinite(d.time_delta))

\* The qualifying laps: laps.iter().filter(not pit-out, not pit-in, finite delta).
Qualifying(pool) ==
    SelectSeq(pool, LAMBDA d : ~d.is_pit_out_lap /\ ~d.is_pit_in_lap /\ IsFinite(d.time_delta))

\* data.iter().filter(|d| d.compound == comp)
CompData(dat, comp) == SelectSeq(dat, LAMBDA d : d.compound = comp)

\* The minimum sample count of build_model.
MinFitSamples == 5

\* if comp_data.len() < 5 { return None; }
TooFewSamples(comp_data) == Len(comp_data) < MinFitSamples

\* The rows of x and the entries of y that build_model assembles.
FitInput(comp, comp_data) ==
    [ comp |-> comp,
      x |-> [ k \in 1..Len(comp_data) |->
                <<comp_data[k].tyre_life, comp_data[k].track_temp,
                  comp_data[k].tyre_life * comp_data[k].tyre_life>> ],
      y |-> [ k \in 1..Len(comp_data) |-> comp_data[k].time_delta ] ]

\* The fit calls DegradationModel::new makes on the pool: HARD first, then
\* MEDIUM, each only with enough samples.
FitCallsOf(pool) ==
    LET dat == Qualifying(pool)
        call(comp) == IF TooFewSamples(CompData(dat, comp)) THEN <<>>
                      ELSE << FitInput(comp, CompData(dat, comp)) >>
    IN  call("HARD") \o call("MEDIUM")

\* What build_model can return for comp: None below the threshold, otherwise
\* what LinearRegression::fit(..).ok() gives, a regression or None; the fit
\* is a function of the dataset it is given.
BuildModelOutcomes(dat, comp) ==
    IF TooFewSamples(CompData(dat, comp)) THEN {None}
    ELSE IF \E r \in fit_results : r.input = FitInput(comp, CompData(dat, comp))
    THEN { r.outcome : r \in { q \in fit_results : q.input = FitInput(comp, CompData(dat, comp)) } }
    ELSE OptionalModels

\* The fit results DegradationModel::new(pool) adds when it returns dm.
FitResultsOf(pool, dm) ==
    { [ input |-> FitCallsOf(pool)[k],
        outcome |-> IF FitCallsOf(pool)[k].comp = "HARD" THEN dm.hard_model ELSE dm.medium_model ] :
      k \in 1..Len(FitCallsOf(pool)) }

\* DegradationModel::new(laps)
New ==
    /\ model_pc = "new"
    /\ model_pc' = "built"
    /\ \E h \in BuildModelOutcomes(Qualifying(model_laps), "HARD") :
       \E m \in BuildModelOutcomes(Qualifying(model_laps), "MEDIUM") :
           /\ model' = [ hard_model |-> h, medium_model |-> m ]
           /\ fit_results' = fit_results \cup
                  FitResultsOf(model_laps, [ hard_model |-> h, medium_model |-> m ])
    /\ fit_calls' = FitCallsOf(model_laps)
    /\ UNCHANGED <<model_laps, query, prediction>>

\* str::to_uppercase on the compound strings of the model.
ToUppercase(s) ==
    CASE s \in {"hard", "Hard", "hArD"} -> "HARD"
      [] s \in {"medium", "Medium"} -> "MEDIUM"
      [] s \in {"soft"} -> "SOFT"
      [] s \in {"harder"} -> "HARDER"
      [] OTHER -> s

\* FittedLinearRegression::predict on one row: params . feats + intercept
RegressionPredict(m, feats) ==
    F64Add(F64Add(F64Add(F64Mul(m.params[1], feats[1]), F64Mul(m.params[2], feats[2])),
                  F64Mul(m.params[3], feats[3])),
           m.intercept)

\* feats.into_shape((1, 3)) succeeds when the element counts agree.
IntoShapeOk(n, rows, cols) == n = rows * cols

Floor0Missing(x) == x

\* The floor of predict_degradation: .max(0.0)
Floor0(x) == F64Max(x, Fin(0))

\* predict_degradation(&self, tyre_lap, temp, comp): the value returned, or a panic.
PredictDegradation(dm, tyre_lap, temp, comp) ==
    LET up == ToUppercase(comp)
        feats == << Fin(tyre_lap), temp, Fin(tyre_lap * tyre_lap) >>
        m == IF up = "HARD" THEN dm.hard_model ELSE dm.medium_model
    IN  IF up \notin {"HARD", "MEDIUM"} THEN [ panicked |-> FALSE, value |-> Fin(0) ]
        ELSE IF m = None THEN [ panicked |-> FALSE, value |-> Fin(0) ]
        ELSE IF ~IntoShapeOk(Len(feats), 1, 3) THEN [ panicked |-> TRUE, value |-> Fin(0) ]
        ELSE [ panicked |-> FALSE, value |-> Floor0(RegressionPredict(m[1], feats)) ]

\* Tyre ages, temperatures and compound strings of the predict calls.
MaxTyreLap == 3
QueryTemps == { Fin(0 - 10), Fin(0), Fin(32), NaN, NegInf }
QueryCompounds == {"HARD", "hard", "hArD", "MEDIUM", "Medium", "SOFT", "soft", "harder", "", "INTERMEDIATE"}

\* A call of predict_degradation.
Predict ==
    /\ model_pc \in {"built", "queried"}
    /\ model_pc' = "queried"
    /\ \E tyre_lap \in 0..MaxTyreLap, temp \in QueryTemps, comp \in QueryCompounds :
         /\ query' = [ tyre_lap |-> tyre_lap, temp |-> temp, comp |-> comp ]
         /\ prediction' = PredictDegradation(model, tyre_lap, temp, comp)
    /\ UNCHANGED <<model_laps, model, fit_calls, fit_results>>

\* The lap pools DegradationModel::new is run on: up to MaxPool laps, each of
\* one of these kinds.
MaxPool == 5

PoolLapKinds ==
    { [compound |-> "HARD", pin |-> FALSE, pout |-> FALSE, finite |-> TRUE],
      [compound |-> "MEDIUM", pin |-> FALSE, pout |-> FALSE, finite |-> TRUE],
      [compound |-> "SOFT", pin |-> FALSE, pout |-> FALSE, finite |-> TRUE],
      [compound |-> "HARD", pin |-> TRUE, pout |-> FALSE, finite |-> TRUE],
      [compound |-> "MEDIUM", pin |-> FALSE, pout |-> TRUE, finite |-> TRUE],
      [compound |-> "HARD", pin |-> FALSE, pout |-> FALSE, finite |-> FALSE] }

\* The pool whose k-th lap is of kind kinds[k].
PoolOf(kinds) ==
    [ k \in 1..Len(kinds) |->
        Lap("VER", k, kinds[k].compound, k - 1, 100 + k, 30,
            IF kinds[k].finite THEN Fin(k) ELSE NaN, kinds[k].pout, kinds[k].pin) ]

\* The kinds of the laps of the pools, in order.
PoolKinds == UNION { [1..n -> PoolLapKinds] : n \in 0..MaxPool }

\* ------------------------------------------------------------------------
\* StrategySimulator::simulate_and_print (strategy.rs)
\* ------------------------------------------------------------------------

VARIABLES
    strat_pc,       \* "idle", "ready" (before simulate_and_print), "printed"
    avg_med,        \* f64 argument, a rational [num, den]: den = 0 for NaN (0/0),
                    \* +inf (1/0) and -inf (-1/0)
    avg_hard,       \* f64 argument
    candidates,     \* per template, the stint lengths it computed and whether it is Some
    output          \* the printed lines, in order: [name, compounds, lens, total_delta, pits]

stratVars == <<strat_pc, avg_med, avg_hard, candidates, output>>

\* The non-finite averages.
RatNaN == [num |-> 0, den |-> 0]
RatPosInf == [num |-> 1, den |-> 0]
RatNegInf == [num |-> 0 - 1, den |-> 0]

StratIdle ==
    /\ strat_pc = "idle"
    /\ avg_med = RatNaN
    /\ avg_hard = RatNaN
    /\ candidates = <<>>
    /\ output = <<>>

\* let pit_loss = 21.0; let temp = 32.0; let total_laps: u32 = 56;
pit_loss == 21
temp == 32
total_laps == 56

\* u32::MAX, the result of casting +inf: the model's integers stop at
\* 2^31 - 1, which stands for it; all that is read of it is that it exceeds
\* total_laps.
U32Max == 2147483647

RoundTruncating(x) ==
    CASE x.den = 0 /\ x.num <= 0 -> 0
      [] x.den = 0 -> U32Max
      [] OTHER -> LET r == IF x.num >= 0 THEN x.num \div x.den ELSE 0
                  IN  IF r > U32Max THEN U32Max ELSE r

\* x.round() as u32: round half away from zero, then the saturating cast
\* (NaN and negative values to 0, large values to u32::MAX).
RoundToU32(x) ==
    CASE x.den = 0 /\ x.num <= 0 -> 0
      [] x.den = 0 -> U32Max
      [] OTHER -> LET r == IF x.num >= 0
                           THEN (2 * x.num + x.den) \div (2 * x.den)
                           ELSE 0 - ((2 * (0 - x.num) + x.den) \div (2 * x.den))
                  IN  IF r < 0 THEN 0 ELSE IF r > U32Max THEN U32Max ELSE r

\* u32::saturating_sub
SaturatingSub(a, b) == IF a >= b THEN a - b ELSE 0

\* u32 addition; an operand above total_laps is only ever added to 0, so the
\* sum never wraps.
AddU32(a, b) == a + b

HalfFloor(rem) == rem \div 2

\* (rem as f64 / 2.0).round() as u32
HalfRounded(rem) == RoundToU32([num |-> rem, den |-> 2])

\* A single-stop template: s1 from an average, s2 the remainder.
OneStop(name, c1, c2, s1) ==
    LET s2 == SaturatingSub(total_laps, s1)
    IN  [ name |-> name, compounds |-> <<c1, c2>>, lens |-> <<s1, s2>>,
          some |-> s1 > 0 /\ s2 > 0 /\ AddU32(s1, s2) = total_laps ]

\* A two-stop template: s1 from an average, the remainder split in two.
TwoStop(name, c1, c2, c3, s1) ==
    LET rem == SaturatingSub(total_laps, s1)
        s2 == HalfRounded(rem)
        s3 == SaturatingSub(rem, s2)
    IN  [ name |-> name, compounds |-> <<c1, c2, c3>>, lens |-> <<s1, s2, s3>>,
          some |-> s1 > 0 /\ s2 > 0 /\ s3 > 0 /\ AddU32(AddU32(s1, s2), s3) = total_laps ]

\* let strategies = vec![...]
Strategies(a_med, a_hard) ==
    LET avg_med_u32 == RoundToU32(a_med)
        avg_hard_u32 == RoundToU32(a_hard)
    IN  << OneStop("1S (M-H)", "MEDIUM", "HARD", avg_med_u32),
           OneStop("1S (H-M)", "HARD", "MEDIUM", avg_hard_u32),
           OneStop("1S (H-H)", "HARD", "HARD", avg_hard_u32),
           TwoStop("2S (M-H-H)", "MEDIUM", "HARD", "HARD", avg_med_u32),
           TwoStop("2S (H-M-M)", "HARD", "MEDIUM", "MEDIUM", avg_hard_u32) >>

RECURSIVE SumU32(_)
\* stints.iter().map(|(_, l)| l).sum(): u32
SumU32(lens) == IF lens = <<>> THEN 0 ELSE AddU32(Head(lens), SumU32(Tail(lens)))

\* The loop's own check: if total_laps_strat != total_laps || any l == 0 { continue; }
Skipped(st) ==
    SumU32(st.lens) # total_laps \/ \E k \in 1..Len(st.lens) : st.lens[k] = 0

RECURSIVE StintDelta(_, _, _, _)
\* (from..=num_laps).map(|tyre_lap| model.predict_degradation(tyre_lap, temp, comp)).sum();
\* the sum is exact here, so it is taken over the two halves of the range.
StintDelta(dm, comp, from, num_laps) ==
    IF from > num_laps THEN Fin(0)
    ELSE IF from = num_laps THEN PredictDegradation(dm, from, Fin(temp), comp).value
    ELSE F64Add(StintDelta(dm, comp, from, (from + num_laps) \div 2),
                StintDelta(dm, comp, (from + num_laps) \div 2 + 1, num_laps))

PitsEveryStint(k) == 1

\* if i > 0 { total_delta += pit_loss; pits += 1; }, for the 0-based stint index k
Pits(k) == IF k > 0 THEN 1 ELSE 0

RECURSIVE ScoreFrom(_, _, _, _, _)
\* The loop over stints.iter().enumerate() from 0-based index k on, with the
\* running total_delta and pits.
ScoreFrom(dm, st, k, total_delta, pits) ==
    IF k >= Len(st.lens) THEN [ total_delta |-> total_delta, pits |-> pits ]
    ELSE ScoreFrom(dm, st, k + 1,
                   F64Add(F64Add(total_delta, Fin(Pits(k) * pit_loss)),
                          StintDelta(dm, st.compounds[k + 1], 1, st.lens[k + 1])),
                   pits + Pits(k))

\* The line printed for a scored strategy.
Line(dm, st) ==
    LET sc == ScoreFrom(dm, st, 0, Fin(0), 0)
    IN  [ name |-> st.name, compounds |-> st.compounds, lens |-> st.lens,
          total_delta |-> sc.total_delta, pits |-> sc.pits ]

RECURSIVE PrintedLines(_, _)
\* for (name, stints_opt) in strategies { ... println!(...) }
PrintedLines(dm, sts) ==
    IF sts = <<>> THEN <<>>
    ELSE (IF Head(sts).some /\ ~Skipped(Head(sts)) THEN << Line(dm, Head(sts)) >> ELSE <<>>)
         \o PrintedLines(dm, Tail(sts))

\* StrategySimulator::simulate_and_print(dm, a_med, a_hard)
SimulateAndPrint(dm, a_med, a_hard) ==
    /\ strat_pc' = "printed"
    /\ candidates' = Strategies(a_med, a_hard)
    /\ output' = PrintedLines(dm, Strategies(a_med, a_hard))

\* A call of simulate_and_print on the model and the averages of the state.
Simulate ==
    /\ strat_pc = "ready"
    /\ SimulateAndPrint(model, avg_med, avg_hard)
    /\ UNCHANGED <<avg_med, avg_hard>>

\* The averages simulate_and_print is run on: every half lap from -1 to
\* total_laps + AvgSlack, and the non-finite values.
AvgSlack == 1

AvgValues ==
    { [num |-> h, den |-> 2] : h \in (0 - 2)..(2 * (total_laps + AvgSlack)) }
    \cup { RatNaN, RatPosInf, RatNegInf }

\* The models simulate_and_print is run on.
DegradationModels == [ hard_model : OptionalModels, medium_model : OptionalModels ]

\* ------------------------------------------------------------------------
\* DataProcessor::new (data.rs)
\* ------------------------------------------------------------------------

VARIABLES
    csv,            \* the file: [readable, records], each record [parses, raw]
    load_result     \* "none" before DataProcessor::new returns, then "Ok" or "Err"

loadVars == <<csv, load_result>>

LoadIdle ==
    /\ csv = [readable |-> FALSE, records |-> <<>>]
    /\ load_result = "none"

\* A RawLapData record; the pit times are present (TRUE) or absent.
Raw(driver, lap_number, comp, tyre_life, lap_time, track_temp, pit_out_time, pit_in_time) ==
    [ driver |-> driver, lap_number |-> lap_number, compound |-> comp,
      tyre_life |-> tyre_life, lap_time_seconds |-> lap_time, track_temp |-> track_temp,
      pit_out_time |-> pit_out_time, pit_in_time |-> pit_in_time ]

\* A record of the file that deserializes to raw, and one that does not.
Record(raw) == [parses |-> TRUE, raw |-> raw]
Malformed == [parses |-> FALSE, raw |-> Raw("", 0, "", 0, 0, 0, FALSE, FALSE)]

\* A file that cannot be opened, and the file with the given records.
Unreadable == [readable |-> FALSE, records |-> <<>>]
File(records) == [readable |-> TRUE, records |-> records]

\* The ceiling of a valid lap time.
MaxLapTime == 300

\* The filter of the read loop.
ValidRaw(raw) ==
    /\ raw.lap_time_seconds > 0
    /\ raw.lap_time_seconds < MaxLapTime
    /\ raw.track_temp > 0
    /\ raw.tyre_life >= 0
    /\ raw.lap_number >= 1
    /\ raw.driver # ""
    /\ raw.compound # ""

\* let lap = ProcessedLapData { ... }
Processed(raw) ==
    Lap(raw.driver, RoundToU32([num |-> raw.lap_number, den |-> 1]),
        ToUppercase(raw.compound), RoundToU32([num |-> raw.tyre_life, den |-> 1]),
        raw.lap_time_seconds, raw.track_temp, Fin(0), raw.pit_out_time, raw.pit_in_time)

RECURSIVE Grouped(_, _)
\* The read loop from the given records on: [ok, driver_data], with
\* driver_data_unsorted when every record deserializes (res?).
Grouped(rows, acc) ==
    IF rows = <<>> THEN [ok |-> TRUE, driver_data |-> acc]
    ELSE IF ~Head(rows).parses THEN [ok |-> FALSE, driver_data |-> << >>]
    ELSE IF ~ValidRaw(Head(rows).raw) THEN Grouped(Tail(rows), acc)
    ELSE LET lap == Processed(Head(rows).raw)
             old == IF lap.driver \in DOMAIN acc THEN acc[lap.driver] ELSE <<>>
         IN  Grouped(Tail(rows),
                     [ d \in DOMAIN acc \cup {lap.driver} |->
                         IF d = lap.driver THEN Append(old, lap) ELSE acc[d] ])

\* s with x put after the last element whose lap number is not larger.
InsertByLapNumber(s, x) ==
    LET n == Cardinality({ k \in 1..Len(s) : s[k].lap_number <= x.lap_number })
    IN  SubSeq(s, 1, n) \o <<x>> \o SubSeq(s, n + 1, Len(s))

RECURSIVE SortByLapNumber(_)
\* laps.sort_by_key(|d| d.lap_number): a stable sort.
SortByLapNumber(s) ==
    IF s = <<>> THEN <<>>
    ELSE InsertByLapNumber(SortByLapNumber(SubSeq(s, 1, Len(s) - 1)), s[Len(s)])

MinLapOverAllLaps(ls) ==
    LET ts == { ls[k].lap_time_seconds : k \in 1..Len(ls) }
    IN  IF ts = {} THEN <<>> ELSE << CHOOSE t \in ts : \A u \in ts : t <= u >>

\* let min_lap = laps.iter().filter(not pit-in, not pit-out).map(lap time).min_by(..):
\* an Option, <<>> for None.
MinLap(ls) ==
    LET rep == SelectSeq(ls, LAMBDA d : ~d.is_pit_in_lap /\ ~d.is_pit_out_lap)
        ts == { rep[k].lap_time_seconds : k \in 1..Len(rep) }
    IN  IF ts = {} THEN <<>> ELSE << CHOOSE t \in ts : \A u \in ts : t <= u >>

\* The second loop's body: sort, find the best representative lap, set the deltas.
WithDeltas(ls) ==
    LET sorted == SortByLapNumber(ls)
        min_lap == MinLap(sorted)
        delta == IF min_lap = <<>> THEN 0 ELSE min_lap[1]
    IN  [ k \in 1..Len(sorted) |->
            [ sorted[k] EXCEPT !.time_delta = Fin(sorted[k].lap_time_seconds - delta) ] ]

\* DataProcessor::new(filename): [ok, driver_data], not ok when the file
\* cannot be opened or a record does not deserialize.
DataProcessorNew(file) ==
    IF ~file.readable THEN [ok |-> FALSE, driver_data |-> << >>]
    ELSE LET unsorted == Grouped(file.records, << >>)
         IN  IF ~unsorted.ok THEN unsorted
             ELSE [ ok |-> TRUE,
                    driver_data |-> [ d \in DOMAIN unsorted.driver_data |->
                                        WithDeltas(unsorted.driver_data[d]) ] ]

\* The files DataProcessor::new is run on: an unreadable one, and up to MaxRows
\* records, each malformed or of one of these kinds.
MaxRows == 3

RawKinds ==
    { Record(Raw(d, n, "medium", 2, t[1], 30, FALSE, t[2])) :
        d \in {"VER", "HAM"}, n \in 1..2,
        t \in { <<90, FALSE>>, <<95, FALSE>>, <<88, TRUE>>, <<300, FALSE>> } }
    \cup { Malformed }

CsvFiles == {Unreadable} \cup { File(rs) : rs \in UNION { [1..n -> RawKinds] : n \in 0..MaxRows } }

\* A call of DataProcessor::new on the file: data is the driver map it returns.
Load ==
    /\ load_result = "none"
    /\ IF DataProcessorNew(csv).ok
       THEN /\ load_result' = "Ok"
            /\ data' = DataProcessorNew(csv).driver_data
       ELSE /\ load_result' = "Err"
            /\ UNCHANGED data
    /\ UNCHANGED <<csv>>

\* ------------------------------------------------------------------------
\* evaluate_model_accuracy (imported by main.rs from data.rs)
\* ------------------------------------------------------------------------

\* m.values().flatten() for a map that iterates its keys in the given order.
AllLaps(m, order) == Flatten([ k \in 1..Len(order) |-> m[order[k]] ])

RECURSIVE SumAbsError(_, _)
\* The sum of |predict(lap) - lap.time_delta| over the laps ls.
SumAbsError(dm, ls) ==
    IF ls = <<>> THEN Fin(0)
    ELSE F64Add(F64Abs(F64Add(PredictDegradation(dm, Head(ls).tyre_life, Fin(Head(ls).track_temp),
                                                 Head(ls).compound).value,
                              F64Neg(Head(ls).time_delta))),
                SumAbsError(dm, Tail(ls)))

\* The mean absolute error of dm on the valid laps ls, as the sum of the
\* errors and the number of laps: 0.0 when there is no lap.
MeanAbsError(dm, ls) == [ sum |-> SumAbsError(dm, ls), count |-> Len(ls) ]

\* evaluate_model_accuracy(&model, &driver_data): (med_error, hard_error)
EvaluateModelAccuracy(dm, m, order) ==
    [ med_error |-> MeanAbsError(dm, CompData(Qualifying(AllLaps(m, order)), "MEDIUM")),
      hard_error |-> MeanAbsError(dm, CompData(Qualifying(AllLaps(m, order)), "HARD")) ]

\* ------------------------------------------------------------------------
\* main (main.rs)
\* ------------------------------------------------------------------------

VARIABLES
    pc,             \* where main is: "load", "check_data", "avg", "fit", "check_model",
                    \* "evaluate", "simulate", or returned: "done", "failed"
    iter_order,     \* the order in which processor.driver_data iterates its keys
    errors,         \* (med_error, hard_error)
    exit,           \* what main returned: "Ok" or the error, or "none"
    run,            \* "first" or "second": the run of the program on the file
    prev            \* what the first run computed, kept for the second (<<>> before)

mainVars == <<pc, iter_order, errors, exit, run, prev>>

MainIdle ==
    /\ pc = "idle"
    /\ iter_order = <<>>
    /\ errors = <<>>
    /\ exit = "none"
    /\ run = "first"
    /\ prev = <<>>

\* let processor = DataProcessor::new("Shanghai2025.csv")?;
MainLoad ==
    /\ pc = "load"
    /\ Load
    /\ IF DataProcessorNew(csv).ok
       THEN /\ pc' = "check_data"
            /\ \E o \in IterationOrders(DOMAIN DataProcessorNew(csv).driver_data) :
                   iter_order' = o
            /\ UNCHANGED exit
       ELSE /\ pc' = "failed"
            /\ exit' = "Err: load"
            /\ UNCHANGED iter_order
    /\ UNCHANGED <<seg_pc, seg_todo, laps, i, start_lap, compound, medium_stints,
                   hard_stints, closed, avg, errors, run, prev>>
    /\ UNCHANGED <<modelVars, stratVars>>

\* if processor.driver_data.is_empty() { return Err("No data found.") }, and
\* otherwise the call of calculate_average_stint_lengths(&processor.driver_data)
MainCheckData ==
    /\ pc = "check_data"
    /\ IF DOMAIN data = {}
       THEN /\ pc' = "failed"
            /\ exit' = "Err: No data found."
            /\ UNCHANGED <<seg_pc, seg_todo>>
       ELSE /\ pc' = "avg"
            /\ seg_pc' = "outer"
            /\ seg_todo' = iter_order
            /\ UNCHANGED exit
    /\ UNCHANGED <<data, laps, i, start_lap, compound, medium_stints, hard_stints,
                   closed, avg, iter_order, errors, run, prev>>
    /\ UNCHANGED <<modelVars, stratVars, loadVars>>

\* let model_laps = processor.driver_data.values().cloned().flatten().filter(..).collect()
ModelLaps(m, order) == Qualifying(AllLaps(m, order))

\* calculate_average_stint_lengths has returned: main collects model_laps.
MainCollect ==
    /\ pc = "avg"
    /\ seg_pc = "done"
    /\ model_laps' = ModelLaps(data, iter_order)
    /\ model_pc' = "new"
    /\ pc' = "fit"
    /\ UNCHANGED <<model, fit_calls, fit_results, query, prediction>>
    /\ UNCHANGED <<iter_order, errors, exit, run, prev>>
    /\ UNCHANGED <<segVars, stratVars, loadVars>>

\* let model = DegradationModel::new(&model_laps);
MainFit ==
    /\ pc = "fit"
    /\ New
    /\ pc' = "check_model"
    /\ UNCHANGED <<iter_order, errors, exit, run, prev>>
    /\ UNCHANGED <<segVars, stratVars, loadVars>>

NoModelBuiltEither(dm) == dm.medium_model = None \/ dm.hard_model = None

\* if model.medium_model.is_none() && model.hard_model.is_none() { return Err(..) }
NoModelBuilt(dm) == dm.medium_model = None /\ dm.hard_model = None

MainCheckModel ==
    /\ pc = "check_model"
    /\ IF NoModelBuilt(model)
       THEN /\ pc' = "failed"
            /\ exit' = "Err: Failed to build any models."
       ELSE /\ pc' = "evaluate"
            /\ UNCHANGED exit
    /\ UNCHANGED <<iter_order, errors, run, prev>>
    /\ UNCHANGED <<segVars, modelVars, stratVars, loadVars>>

\* let (med_error, hard_error) = evaluate_model_accuracy(&model, &processor.driver_data);
MainEvaluate ==
    /\ pc = "evaluate"
    /\ errors' = EvaluateModelAccuracy(model, data, iter_order)
    /\ pc' = "simulate"
    /\ UNCHANGED <<iter_order, exit, run, prev>>
    /\ UNCHANGED <<segVars, modelVars, stratVars, loadVars>>

\* StrategySimulator::simulate_and_print(&model, avg_med, avg_hard)?; Ok(())
MainSimulate ==
    /\ pc = "simulate"
    /\ avg_med' = avg.med
    /\ avg_hard' = avg.hard
    /\ SimulateAndPrint(model, avg.med, avg.hard)
    /\ pc' = "done"
    /\ exit' = "Ok"
    /\ UNCHANGED <<iter_order, errors, run, prev>>
    /\ UNCHANGED <<segVars, modelVars, loadVars>>

\* The program is run again on the same file.
Rerun ==
    /\ pc \in {"done", "failed"}
    /\ run = "first"
    /\ run' = "second"
    /\ prev' = << [ pc |-> pc, exit |-> exit, avg |-> avg, fit_calls |-> fit_calls,
                    model |-> model, output |-> output ] >>
    /\ pc' = "load"
    /\ iter_order' = <<>>
    /\ errors' = <<>>
    /\ exit' = "none"
    /\ data' = << >>
    /\ seg_pc' = "idle"
    /\ seg_todo' = <<>>
    /\ laps' = <<>>
    /\ i' = 0
    /\ start_lap' = 0
    /\ compound' = ""
    /\ medium_stints' = <<>>
    /\ hard_stints' = <<>>
    /\ closed' = <<>>
    /\ avg' = NoAvg
    /\ model_pc' = "idle"
    /\ model_laps' = <<>>
    /\ model' = NoModels
    /\ fit_calls' = <<>>
    /\ UNCHANGED <<query, prediction>>
    /\ strat_pc' = "idle"
    /\ avg_med' = RatNaN
    /\ avg_hard' = RatNaN
    /\ candidates' = <<>>
    /\ output' = <<>>
    /\ load_result' = "none"
    /\ UNCHANGED <<csv, fit_results>>

\* The files main is run on: for each driver a first stint of n_med MEDIUM
\* laps ending in a pit-in lap and a second of n_hard HARD laps starting with
\* a pit-out lap, each stint of up to MaxStintLaps laps; lap times rise with
\* tyre age, and the pit laps are slower.
MaxStintLaps == 4

StintRows(d, first_lap, n, comp, pit_in_last, pit_out_first) ==
    [ k \in 1..n |->
        Raw(d, first_lap + k - 1, comp, k - 1,
            90 + k + (IF pit_in_last /\ k = n THEN 5 ELSE 0)
                   + (IF pit_out_first /\ k = 1 THEN 10 ELSE 0),
            30, pit_out_first /\ k = 1, pit_in_last /\ k = n) ]

DriverRows(d, n_med, n_hard) ==
    [ k \in 1..(n_med + n_hard) |->
        Record((StintRows(d, 1, n_med, "medium", n_hard > 0, FALSE)
                \o StintRows(d, n_med + 1, n_hard, "hard", FALSE, n_med > 0))[k]) ]

RaceFile(p) == File(DriverRows("VER", p[1], p[2]) \o DriverRows("HAM", p[3], p[4]))

MainFiles ==
    { Unreadable, File(<< Malformed >>) }
    \cup { RaceFile(p) : p \in (0..MaxStintLaps) \X (0..MaxStintLaps)
                               \X (0..MaxStintLaps) \X (0..MaxStintLaps) }

\* The files of the repeated run.
RerunFiles ==
    { Unreadable }
    \cup { RaceFile(p) : p \in {0, MaxStintLaps} \X {0, MaxStintLaps}
                               \X {0, MaxStintLaps} \X {0, MaxStintLaps} }

\* State when main starts on the file.
MainStart(file) ==
    /\ csv = file
    /\ load_result = "none"
    /\ pc = "load"
    /\ iter_order = <<>>
    /\ errors = <<>>
    /\ exit = "none"
    /\ run = "first"
    /\ prev = <<>>

\* ------------------------------------------------------------------------
\* Specifications
\* ------------------------------------------------------------------------

vars == <<segVars, modelVars, stratVars, loadVars, mainVars>>

\* calculate_average_stint_lengths on every driver map of SegInputs.
SegInit ==
    /\ \E d \in SegInputs : \E order \in IterationOrders(DOMAIN d) : SegStart(d, order)
    /\ ModelIdle /\ StratIdle /\ LoadIdle /\ MainIdle

SegNext ==
    \/ SegNextDriver /\ UNCHANGED <<modelVars, stratVars, loadVars, mainVars>>
    \/ SegStep /\ UNCHANGED <<modelVars, stratVars, loadVars, mainVars>>
    \/ SegReturn /\ UNCHANGED <<modelVars, stratVars, loadVars, mainVars>>

SpecSeg == SegInit /\ [][SegNext]_vars

\* DegradationModel::new on every pool of up to MaxPool laps.
FitInit ==
    /\ \E kinds \in PoolKinds : model_laps = PoolOf(kinds)
    /\ model_pc = "new"
    /\ model = NoModels /\ fit_calls = <<>> /\ fit_results = {}
    /\ query = [ tyre_lap |-> 0, temp |-> Fin(0), comp |-> "" ]
    /\ prediction = [ panicked |-> FALSE, value |-> Fin(0) ]
    /\ SegIdle /\ StratIdle /\ LoadIdle /\ MainIdle

FitNext == New /\ UNCHANGED <<segVars, stratVars, loadVars, mainVars>>

SpecFit == FitInit /\ [][FitNext]_vars

\* predict_degradation on every model of DegradationModels.
PredictInit ==
    /\ model \in DegradationModels
    /\ model_pc = "built"
    /\ model_laps = <<>> /\ fit_calls = <<>> /\ fit_results = {}
    /\ query = [ tyre_lap |-> 0, temp |-> Fin(0), comp |-> "" ]
    /\ prediction = [ panicked |-> FALSE, value |-> Fin(0) ]
    /\ SegIdle /\ StratIdle /\ LoadIdle /\ MainIdle

PredictNext == Predict /\ UNCHANGED <<segVars, stratVars, loadVars, mainVars>>

SpecPredict == PredictInit /\ [][PredictNext]_vars

\* A few averages: the defaults, those of the test data, halves, and the
\* whole race.
AvgSample ==
    { [num |-> 14, den |-> 1], [num |-> 42, den |-> 1], [num |-> 8, den |-> 2],
      [num |-> 6, den |-> 2], [num |-> 27, den |-> 2], [num |-> 83, den |-> 2],
      [num |-> total_laps, den |-> 1] }

\* simulate_and_print with one average ranging over AvgValues and the other
\* over AvgSample on one model, and on the averages of AvgSample with every
\* model.
StrategyInit ==
    /\ \/ /\ avg_med \in AvgValues
          /\ avg_hard \in AvgSample
          /\ model = [ hard_model |-> Some(Fitted(Fin(2), Fin(1), Fin(0), Fin(1))),
                       medium_model |-> Some(Fitted(Fin(0 - 40), Fin(0 - 3), Fin(1), Fin(2))) ]
       \/ /\ avg_med \in AvgSample
          /\ avg_hard \in AvgValues
          /\ model = [ hard_model |-> Some(Fitted(Fin(2), Fin(1), Fin(0), Fin(1))),
                       medium_model |-> Some(Fitted(Fin(0 - 40), Fin(0 - 3), Fin(1), Fin(2))) ]
       \/ /\ avg_med \in AvgSample
          /\ avg_hard \in AvgSample
          /\ model \in DegradationModels
    /\ strat_pc = "ready"
    /\ candidates = <<>> /\ output = <<>>
    /\ model_pc = "built"
    /\ model_laps = <<>> /\ fit_calls = <<>> /\ fit_results = {}
    /\ query = [ tyre_lap |-> 0, temp |-> Fin(0), comp |-> "" ]
    /\ prediction = [ panicked |-> FALSE, value |-> Fin(0) ]
    /\ SegIdle /\ LoadIdle /\ MainIdle

StrategyNext ==
    /\ Simulate
    /\ UNCHANGED <<segVars, modelVars, loadVars, mainVars>>

SpecStrategy == StrategyInit /\ [][StrategyNext]_vars

\* DataProcessor::new on every file of CsvFiles.
LoadInit ==
    /\ csv \in CsvFiles
    /\ load_result = "none"
    /\ SegIdle /\ ModelIdle /\ StratIdle /\ MainIdle

LoadNext ==
    /\ Load
    /\ UNCHANGED <<seg_pc, seg_todo, laps, i, start_lap, compound, medium_stints,
                   hard_stints, closed, avg>>
    /\ UNCHANGED <<modelVars, stratVars, mainVars>>

SpecLoad == LoadInit /\ [][LoadNext]_vars

\* main on every file of MainFiles.
MainInit ==
    /\ \E file \in MainFiles : MainStart(file)
    /\ SegIdle /\ ModelIdle /\ StratIdle

\* calculate_average_stint_lengths running inside main.
MainAvg ==
    \/ pc = "avg" /\ SegNextDriver /\ UNCHANGED <<modelVars, stratVars, loadVars, mainVars>>
    \/ pc = "avg" /\ SegStep /\ UNCHANGED <<modelVars, stratVars, loadVars, mainVars>>
    \/ pc = "avg" /\ SegReturn /\ UNCHANGED <<modelVars, stratVars, loadVars, mainVars>>

MainNext ==
    \/ MainLoad
    \/ MainCheckData
    \/ MainAvg
    \/ MainCollect
    \/ MainFit
    \/ MainCheckModel
    \/ MainEvaluate
    \/ MainSimulate

SpecMain == MainInit /\ [][MainNext]_vars

\* main run twice on every file of RerunFiles.
RerunInit ==
    /\ \E file \in RerunFiles : MainStart(file)
    /\ SegIdle /\ ModelIdle /\ StratIdle

RerunNext == MainNext \/ Rerun

SpecRerun == RerunInit /\ [][RerunNext]_vars

\* ------------------------------------------------------------------------
\* Stints, read off the lap sequences
\* ------------------------------------------------------------------------

\* The 1-based indices of the boundary laps of ls.
BoundaryLaps(ls) == { k \in 1..Len(ls) : IsStintEnd(ls, k - 1) }

\* The stints of ls: one per boundary lap, from the lap after the previous
\* boundary lap (or the first lap) to the boundary lap.
StintsOf(d, ls) ==
    { [ driver |-> d,
        first |-> IF \E b \in BoundaryLaps(ls) : b < e
                  THEN 1 + CHOOSE b \in BoundaryLaps(ls) :
                             b < e /\ \A c \in BoundaryLaps(ls) : c < e => c <= b
                  ELSE 1,
        last |-> e ] : e \in BoundaryLaps(ls) }

\* The stints of all drivers of the map m.
AllStints(m) == UNION { StintsOf(d, m[d]) : d \in DOMAIN m }

\* The stints of m whose first lap carries compound c.
StintsOn(m, c) == { st \in AllStints(m) : m[st.driver][st.first].compound = c }

\* Length of a stint in lap numbers: end - start + 1.
LapSpan(m, st) == m[st.driver][st.last].lap_number - m[st.driver][st.first].lap_number + 1

RECURSIVE TotalSpan(_, _)
TotalSpan(m, sts) ==
    IF sts = {} THEN 0
    ELSE LET st == CHOOSE x \in sts : TRUE
         IN  LapSpan(m, st) + TotalSpan(m, sts \ {st})

\* The rationals a and b are equal.
RatEq(a, b) == a.num * b.den = b.num * a.den

\* The closed stints of driver d.
ClosedOf(d) == SelectSeq(closed, LAMBDA st : st.driver = d)

RECURSIVE SumLen(_)
SumLen(sts) == IF sts = <<>> THEN 0 ELSE Head(sts).len + SumLen(Tail(sts))

\* ------------------------------------------------------------------------
\* Claims about calculate_average_stint_lengths
\* ------------------------------------------------------------------------

\* The lap numbers of driver d's laps.
LapNumbers(d) == { data[d][k].lap_number : k \in 1..Len(data[d]) }

\* The lap numbers missing from driver d's laps that fall inside a closed stint.
MissingInsideStints(d) ==
    { n \in 1..(IF data[d] = <<>> THEN 0 ELSE data[d][Len(data[d])].lap_number) :
        /\ n \notin LapNumbers(d)
        /\ \E j \in 1..Len(ClosedOf(d)) : ClosedOf(d)[j].start < n /\ n < ClosedOf(d)[j].end }

\* Every lap number of driver d lies in exactly one closed stint's range.
EveryLapInOneStint(d) ==
    \A k \in 1..Len(data[d]) :
        Cardinality({ j \in 1..Len(ClosedOf(d)) :
            /\ ClosedOf(d)[j].start <= data[d][k].lap_number
            /\ data[d][k].lap_number <= ClosedOf(d)[j].end }) = 1

\* C1 as stated: for every driver lap sequence with strictly increasing lap
\* numbers (gaps allowed), the stints closed by the segmentation loop
\* partition the sequence: their lengths (end - start + 1) sum to the number
\* of laps, and every lap number lies in exactly one stint's [start, end]
\* range.
C1_StintsPartitionLaps ==
    seg_pc = "done" =>
        \A d \in DOMAIN data :
            /\ SumLen(ClosedOf(d)) = Len(data[d])
            /\ EveryLapInOneStint(d)

\* C1 as amended: every lap number lies in exactly one closed stint's
\* [start, end] range, and the stint lengths sum to the number of laps plus
\* the number of lap numbers that are missing inside a stint (so to the
\* number of laps exactly when no stint spans a gap).
C1_StintsCoverLapsAndGaps ==
    seg_pc = "done" =>
        \A d \in DOMAIN data :
            /\ SumLen(ClosedOf(d)) = Len(data[d]) + Cardinality(MissingInsideStints(d))
            /\ EveryLapInOneStint(d)

\* C1 witness: a finished segmentation of a driver whose laps form two
\* stints, one of which spans a missing lap number.
C1_Witness ==
    /\ seg_pc = "done"
    /\ \E d \in DOMAIN data :
         /\ Len(ClosedOf(d)) >= 2
         /\ MissingInsideStints(d) # {}
         /\ SumLen(ClosedOf(d)) > Len(data[d])

\* C6: the returned pair holds, for MEDIUM and for HARD independently, the
\* arithmetic mean of the lengths of all stints of that compound over all
\* drivers, and exactly 14 (MEDIUM) or 42 (HARD) when the data holds no stint
\* of that compound; stints of other compounds change neither average.
C6_AverageIsMeanOrDefault ==
    seg_pc = "done" =>
        /\ IF StintsOn(data, "MEDIUM") = {}
           THEN avg.med = [num |-> 14, den |-> 1]
           ELSE RatEq(avg.med, [num |-> TotalSpan(data, StintsOn(data, "MEDIUM")),
                                den |-> Cardinality(StintsOn(data, "MEDIUM"))])
        /\ IF StintsOn(data, "HARD") = {}
           THEN avg.hard = [num |-> 42, den |-> 1]
           ELSE RatEq(avg.hard, [num |-> TotalSpan(data, StintsOn(data, "HARD")),
                                 den |-> Cardinality(StintsOn(data, "HARD"))])

\* C6 witness: the data of test_average_stint_length_calculation gives 4.0
\* for MEDIUM (stints of 5 and 3 laps) and 3.0 for HARD (stints of 4 and 2).
C6_Witness ==
    /\ seg_pc = "done"
    /\ data = TestData
    /\ medium_stints \in { <<5, 3>>, <<3, 5>> }
    /\ hard_stints \in { <<4, 2>>, <<2, 4>> }
    /\ RatEq(avg.med, [num |-> 4, den |-> 1])
    /\ RatEq(avg.hard, [num |-> 3, den |-> 1])

\* ------------------------------------------------------------------------
\* Claims about simulate_and_print
\* ------------------------------------------------------------------------

\* The candidate is scored: a line with its name is printed.
Printed(c) == \E j \in 1..Len(output) : output[j].name = c.name

\* All stint lengths are at least 1 and they sum to 56.
ValidLens(lens) ==
    /\ \A k \in 1..Len(lens) : lens[k] >= 1 /\ lens[k] <= 56
    /\ SumSeq(lens) = 56

\* The average x rounds to 14: 13.5 <= x < 14.5.
RoundsTo14(x) == x.den > 0 /\ 2 * x.num >= 27 * x.den /\ 2 * x.num < 29 * x.den

\* C2: for every pair of averages, each of the five templates is left out of
\* the output exactly when one of its computed stint lengths is not positive
\* or the lengths do not sum to 56; so every printed candidate has lengths
\* of at least 1 summing to 56, and when avg_med rounds to 14 the single-stop
\* candidate (MEDIUM 14, HARD 42) is printed.
C2_RejectedIffInvalid ==
    strat_pc = "printed" =>
        /\ Len(candidates) = 5
        /\ \A k \in 1..Len(candidates) : ~Printed(candidates[k]) <=> ~ValidLens(candidates[k].lens)
        /\ \A j \in 1..Len(output) : ValidLens(output[j].lens)
        /\ RoundsTo14(avg_med) =>
              \E j \in 1..Len(output) :
                  /\ output[j].name = "1S (M-H)"
                  /\ output[j].compounds = <<"MEDIUM", "HARD">>
                  /\ output[j].lens = <<14, 42>>

\* C2 witness: avg_med is 13.5, the single-stop candidate (MEDIUM 14, HARD 42)
\* is printed, and another template is left out.
C2_Witness ==
    /\ strat_pc = "printed"
    /\ avg_med = [num |-> 27, den |-> 2]
    /\ \E j \in 1..Len(output) : output[j].name = "1S (M-H)" /\ output[j].lens = <<14, 42>>
    /\ \E k \in 1..Len(candidates) : ~Printed(candidates[k])

\* The two-stop templates whose first stint s1 has 0 < s1 < 56.
TwoStopSplits ==
    { c \in { candidates[k] : k \in 1..Len(candidates) } :
        Len(c.lens) = 3 /\ 0 < c.lens[1] /\ c.lens[1] < 56 }

\* C3 as stated: in every two-stop template with 0 < s1 < 56 the remainder
\* rem = 56 - s1 is split between the second and third stints, the extra lap
\* of an odd rem going to the third: s3 - s2 = rem mod 2.
C3_OddLapToFinalStint ==
    strat_pc = "printed" =>
        \A c \in TwoStopSplits :
            /\ c.lens[2] + c.lens[3] = 56 - c.lens[1]
            /\ c.lens[3] - c.lens[2] = (56 - c.lens[1]) % 2

\* C3 as amended: the remainder rem = 56 - s1 is split between the second
\* and third stints, the extra lap of an odd rem going to the second:
\* s2 - s3 = rem mod 2.
C3_OddLapToSecondStint ==
    strat_pc = "printed" =>
        \A c \in TwoStopSplits :
            /\ c.lens[2] + c.lens[3] = 56 - c.lens[1]
            /\ c.lens[2] - c.lens[3] = (56 - c.lens[1]) % 2

\* C3 witness: a printed two-stop plan with an odd remainder, the second
\* stint one lap longer than the third.
C3_Witness ==
    /\ strat_pc = "printed"
    /\ \E j \in 1..Len(output) :
         /\ Len(output[j].lens) = 3
         /\ (56 - output[j].lens[1]) % 2 = 1
         /\ output[j].lens[2] = output[j].lens[3] + 1

RECURSIVE AgeSum(_, _, _)
\* The sum of predict_degradation(tyre_age, 32, comp) over tyre_age in lo..hi.
AgeSum(comp, lo, hi) ==
    IF lo > hi THEN Fin(0)
    ELSE IF lo = hi THEN PredictDegradation(model, lo, Fin(32), comp).value
    ELSE F64Add(AgeSum(comp, lo, (lo + hi) \div 2), AgeSum(comp, (lo + hi) \div 2 + 1, hi))

RECURSIVE StintsSum(_, _)
\* The sum over the stints k..n of the line of each stint's AgeSum from age 1.
StintsSum(line, k) ==
    IF k > Len(line.lens) THEN Fin(0)
    ELSE F64Add(AgeSum(line.compounds[k], 1, line.lens[k]), StintsSum(line, k + 1))

\* C7: every printed candidate with n stints reports n - 1 stops, and its
\* total is (n - 1) * 21 plus, for each stint, the sum of
\* predict_degradation(tyre_age, 32, compound) for tyre_age = 1..stint
\* length, the tyre age starting at 1 in every stint.
C7_PenaltyPerTransition ==
    strat_pc = "printed" =>
        \A j \in 1..Len(output) :
            /\ output[j].pits = Len(output[j].lens) - 1
            /\ output[j].total_delta =
                  F64Add(Fin((Len(output[j].lens) - 1) * 21), StintsSum(output[j], 1))

\* C7 witness: a printed two-stop plan with two stops and a finite total
\* above the two pit penalties.
C7_Witness ==
    /\ strat_pc = "printed"
    /\ \E j \in 1..Len(output) :
         /\ Len(output[j].lens) = 3
         /\ output[j].pits = 2
         /\ IsFinite(output[j].total_delta)
         /\ output[j].total_delta.val > 42

\* ------------------------------------------------------------------------
\* Claims about DegradationModel
\* ------------------------------------------------------------------------

\* The spellings of the two modelled compounds, compared case-insensitively.
HardSpellings == {"HARD", "hard", "hArD"}
MediumSpellings == {"MEDIUM", "Medium"}

\* The f64 x is at least 0 (NaN is not).
NonNegative(x) == x.cls = "inf" \/ (x.cls = "fin" /\ x.val >= 0)

\* The regression output of the fitted model m on the query, clamped at 0.
Clamped(m) ==
    LET raw == RegressionPredict(m, << Fin(query.tyre_lap), query.temp,
                                       Fin(query.tyre_lap * query.tyre_lap) >>)
    IN  IF NonNegative(raw) THEN raw ELSE Fin(0)

\* C4: predict_degradation returns a value >= 0 for every tyre age,
\* temperature and compound string, whatever the coefficients: the output
\* of a fitted model clamped at 0, and exactly 0 when the compound is
\* neither HARD nor MEDIUM (in any case) or no model was fitted for it; no
\* call fails.
C4_PredictionNonNegative ==
    model_pc = "queried" =>
        /\ ~prediction.panicked
        /\ NonNegative(prediction.value)
        /\ query.comp \notin HardSpellings \cup MediumSpellings => prediction.value = Fin(0)
        /\ query.comp \in HardSpellings =>
              prediction.value = IF model.hard_model = <<>> THEN Fin(0)
                                 ELSE Clamped(model.hard_model[1])
        /\ query.comp \in MediumSpellings =>
              prediction.value = IF model.medium_model = <<>> THEN Fin(0)
                                 ELSE Clamped(model.medium_model[1])

\* C4 witness: a lower-case query of a fitted HARD model whose regression
\* output is below zero, answered with 0.
C4_Witness ==
    /\ model_pc = "queried"
    /\ query.comp = "hard"
    /\ model.hard_model # <<>>
    /\ LET raw == RegressionPredict(model.hard_model[1],
                      << Fin(query.tyre_lap), query.temp, Fin(query.tyre_lap * query.tyre_lap) >>)
       IN  raw.cls = "fin" /\ raw.val < 0
    /\ prediction = [ panicked |-> FALSE, value |-> Fin(0) ]

\* The indices of the laps of the pool that carry compound c and are neither
\* pit-in nor pit-out laps and have a finite delta.
QualifyingLaps(c) ==
    { k \in 1..Len(model_laps) :
        /\ model_laps[k].compound = c
        /\ ~model_laps[k].is_pit_in_lap
        /\ ~model_laps[k].is_pit_out_lap
        /\ model_laps[k].time_delta.cls = "fin" }

\* The fit calls made for compound c.
FitCallsFor(c) == { k \in 1..Len(fit_calls) : fit_calls[k].comp = c }

\* C5: for every pool and each of HARD and MEDIUM, with fewer than 5
\* qualifying laps of the compound (pit-in, pit-out and non-finite-delta laps
\* not counted) DegradationModel::new leaves the compound's model None and
\* attempts no fit; a fit is attempted only on 5 or more qualifying laps,
\* and on exactly those.
C5_FewerThanFiveIsNone ==
    model_pc = "built" =>
        /\ Cardinality(QualifyingLaps("HARD")) < 5 => model.hard_model = <<>>
        /\ Cardinality(QualifyingLaps("MEDIUM")) < 5 => model.medium_model = <<>>
        /\ \A c \in {"HARD", "MEDIUM"} :
              /\ Cardinality(QualifyingLaps(c)) < 5 => FitCallsFor(c) = {}
              /\ \A k \in FitCallsFor(c) :
                    /\ Cardinality(QualifyingLaps(c)) >= 5
                    /\ Len(fit_calls[k].x) = Cardinality(QualifyingLaps(c))
                    /\ Len(fit_calls[k].y) = Cardinality(QualifyingLaps(c))

\* C5 witness: a pool of five HARD laps, one of them a pit lap or with a
\* non-finite delta, for which no fit is attempted and the model is None.
C5_Witness ==
    /\ model_pc = "built"
    /\ Cardinality({ k \in 1..Len(model_laps) : model_laps[k].compound = "HARD" }) = 5
    /\ Cardinality(QualifyingLaps("HARD")) = 4
    /\ model.hard_model = <<>>
    /\ fit_calls = <<>>

\* ------------------------------------------------------------------------
\* Claims about DataProcessor::new
\* ------------------------------------------------------------------------

\* The indices of driver d's representative laps: neither pit-in nor pit-out.
Representative(d) ==
    { k \in 1..Len(data[d]) : ~data[d][k].is_pit_in_lap /\ ~data[d][k].is_pit_out_lap }

\* Every lap of driver d has as delta its lap time minus the smallest lap
\* time of the driver's representative laps.
DeltaAgainstBestRepresentative(d) ==
    \E b \in Representative(d) :
        /\ \A k \in Representative(d) :
              data[d][b].lap_time_seconds <= data[d][k].lap_time_seconds
        /\ \A k \in 1..Len(data[d]) :
              data[d][k].time_delta =
                  Fin(data[d][k].lap_time_seconds - data[d][b].lap_time_seconds)

\* C9 as stated: after DataProcessor::new, for every driver with a
\* representative lap, every stored lap, pit laps included, has
\* time_delta >= 0, the delta being the lap time minus the driver's minimum
\* lap time over the non-pit laps.
C9_AllDeltasNonNegative ==
    load_result = "Ok" =>
        \A d \in DOMAIN data :
            Representative(d) # {} =>
                /\ DeltaAgainstBestRepresentative(d)
                /\ \A k \in 1..Len(data[d]) : NonNegative(data[d][k].time_delta)

\* C9 as amended: for every driver with a representative lap, the delta of
\* every lap is its time minus the driver's minimum over the non-pit laps,
\* and every representative lap has time_delta >= 0; a pit-in or pit-out
\* lap has a negative delta exactly when it is faster than that minimum.
C9_RepresentativeDeltasNonNegative ==
    load_result = "Ok" =>
        \A d \in DOMAIN data :
            Representative(d) # {} =>
                /\ DeltaAgainstBestRepresentative(d)
                /\ \A k \in Representative(d) : NonNegative(data[d][k].time_delta)
                /\ \A k \in 1..Len(data[d]) :
                      ~NonNegative(data[d][k].time_delta) <=>
                          /\ k \notin Representative(d)
                          /\ \A b \in Representative(d) :
                                data[d][k].lap_time_seconds < data[d][b].lap_time_seconds

\* C9 witness: a loaded driver with a representative lap and a pit-in lap
\* faster than it, whose delta is negative.
C9_Witness ==
    /\ load_result = "Ok"
    /\ \E d \in DOMAIN data :
         /\ Representative(d) # {}
         /\ \E k \in 1..Len(data[d]) :
              /\ data[d][k].is_pit_in_lap
              /\ data[d][k].time_delta.val < 0
         /\ \E k \in Representative(d) : data[d][k].time_delta = Fin(0)

\* ------------------------------------------------------------------------
\* Claims about main
\* ------------------------------------------------------------------------

\* The run has returned.
Returned == pc \in {"done", "failed"}

\* No driver data loaded: the load failed or the driver map is empty.
NoDriverData == load_result = "Err" \/ DOMAIN data = {}

\* Neither compound's model was built.
NeitherModel == model.medium_model = <<>> /\ model.hard_model = <<>>

\* C10: the run fails exactly when no driver data loads (the load returns an
\* error or the map is empty) or neither model is built, and then returns
\* before the simulator is invoked; in every other case it goes in order
\* through the accuracy evaluation and the simulation and returns Ok. One
\* compound without a model is no error when the other's model is fitted.
C10_FailsOnlyWithoutDataOrModels ==
    /\ [](Returned =>
            /\ pc = "failed" <=> (NoDriverData \/ NeitherModel)
            /\ pc = "failed" => exit \notin {"Ok", "none"} /\ strat_pc = "idle"
            /\ pc = "done" => exit = "Ok" /\ strat_pc = "printed")
    /\ [](~Returned => exit = "none" /\ strat_pc = "idle")
    /\ [][ /\ pc' = "evaluate" => pc = "check_model" /\ ~NoDriverData /\ ~NeitherModel
           /\ pc' = "simulate" => pc = "evaluate"
           /\ pc' = "done" => pc = "simulate"
           /\ strat_pc' # strat_pc => pc = "simulate" /\ pc' = "done"
           /\ pc = "check_model" /\ ~NeitherModel => pc' = "evaluate" ]_vars

\* C10 witness: a run that returned Ok with the HARD model fitted and the
\* MEDIUM model unavailable, fewer than 5 MEDIUM laps qualifying.
C10_Witness ==
    /\ pc = "done"
    /\ exit = "Ok"
    /\ strat_pc = "printed"
    /\ model.medium_model = <<>>
    /\ model.hard_model # <<>>
    /\ Cardinality(QualifyingLaps("MEDIUM")) \in 1..4

\* C8 as stated: a second run of the pipeline on the same file returns as
\* the first did, with the same average stint lengths, the same rows and
\* targets handed to each compound's fit in the same order, the same model
\* coefficients and the same printed strategy scores.
C8_RerunIsIdentical ==
    (run = "second" /\ Returned) =>
        /\ prev[1].pc = pc
        /\ prev[1].exit = exit
        /\ prev[1].avg = avg
        /\ prev[1].fit_calls = fit_calls
        /\ prev[1].model = model
        /\ prev[1].output = output

\* ------------------------------------------------------------------------
\* Claims about the segmentation loop
\* ------------------------------------------------------------------------

\* Every lap of driver d whose number lies in a closed stint's range carries
\* the compound under which the stint is bucketed.
StintLapsCarryCompound(d) ==
    \A j \in 1..Len(ClosedOf(d)) : \A k \in 1..Len(data[d]) :
        (ClosedOf(d)[j].start <= data[d][k].lap_number
            /\ data[d][k].lap_number <= ClosedOf(d)[j].end)
        => data[d][k].compound = ClosedOf(d)[j].compound

\* Every pair of adjacent laps of ls up to 1-based index n whose compounds
\* differ has a closed stint of the driver ending at the earlier lap.
ChangeClosesStint(ls, n) ==
    \A k \in 1..n :
        (k < Len(ls) /\ ls[k + 1].compound # ls[k].compound)
        => \E j \in 1..Len(ClosedOf(ls[k].driver)) :
               ClosedOf(ls[k].driver)[j].end = ls[k].lap_number

\* C11: at every iteration of the segmentation loop the running compound
\* (taken from the stint's first lap) is the compound of the current lap,
\* for every lap sequence and every combination of pit flags; so every lap
\* inside a closed stint carries the compound the stint is bucketed under,
\* and a compound change between two adjacent laps closes the stint at the
\* earlier lap, whether or not the later lap is a pit-out lap.
C11_RunningCompoundIsCurrent ==
    /\ seg_pc = "inner" =>
          /\ i < Len(laps)
          /\ compound = laps[i + 1].compound
          /\ start_lap <= laps[i + 1].lap_number
          /\ ChangeClosesStint(laps, i)
    /\ seg_pc \in {"inner", "outer", "done"} =>
          \A d \in DOMAIN data : StintLapsCarryCompound(d)
    /\ seg_pc = "done" =>
          \A d \in DOMAIN data : ChangeClosesStint(data[d], Len(data[d]))

\* C11 witness: the loop stands at a lap whose compound differs from the
\* previous lap's, neither lap carrying a pit flag; the stint was closed at
\* the previous lap and the running compound is the current lap's.
C11_Witness ==
    /\ seg_pc = "inner"
    /\ i >= 1
    /\ laps[i + 1].compound # laps[i].compound
    /\ ~laps[i + 1].is_pit_out_lap
    /\ ~laps[i].is_pit_in_lap
    /\ closed # <<>>
    /\ closed[Len(closed)].end = laps[i].lap_number
    /\ closed[Len(closed)].compound = laps[i].compound
    /\ compound = laps[i + 1].compound
    /\ start_lap = laps[i + 1].lap_number

====
